---- MODULE Spec2Model ----
(***************************************************************************)
(* Model of SeleniumLibrary/keywords/cookie.py: the six cookie keywords of *)
(* CookieKeywords and the CookieInformation value object, run against a    *)
(* browser session that owns the cookie jar.                               *)
(*                                                                         *)
(* Python values are tagged records, so that None, '', False and 0 stay    *)
(* distinct: [t |-> "none"], [t |-> "str", s |-> ...], [t |-> "bool",      *)
(* b |-> ...], [t |-> "int", n |-> ...], [t |-> "float", sec |-> ...,         *)
(* frac |-> ...] (the float sec + frac/1000 with sec its floor and frac in *)
(* 0..999).  A dict is a function from its keys to tagged values; an       *)
(* object's __dict__ is the sequence of its <<key, value>> items in        *)
(* insertion order (Python >= 3.7).                                        *)
(***************************************************************************)
EXTENDS Integers, Sequences, FiniteSets, TLC

VARIABLES cookies, call, requests, outcome

vars == <<cookies, call, requests, outcome>>

(* ------------------------------ bounds --------------------------------- *)

MaxCookies == 2

(* --------------------------- Python values ----------------------------- *)

None == [t |-> "none"]

Str(s) == [t |-> "str", s |-> s]

Bool(b) == [t |-> "bool", b |-> b]

Integer(n) == [t |-> "int", n |-> n]

Float(sec, frac) == [t |-> "float", sec |-> sec, frac |-> frac]

Digit(d) == <<"0", "1", "2", "3", "4", "5", "6", "7", "8", "9">>[d + 1]

RECURSIVE NatStr(_)
NatStr(n) == IF n < 10 THEN Digit(n) ELSE NatStr(n \div 10) \o Digit(n % 10)

IntStr(n) == IF n < 0 THEN "-" \o NatStr(-n) ELSE NatStr(n)

\* str(v), as "{}".format(v) and "%s" % v render a value
PyStr(v) ==
    CASE v.t = "none" -> "None"
      [] v.t = "str" -> v.s
      [] v.t = "bool" -> (IF v.b THEN "True" ELSE "False")
      [] v.t = "int" -> IntStr(v.n)

\* sep.join(items)
RECURSIVE JoinUpTo(_, _, _)
JoinUpTo(sep, items, k) ==
    IF k = 0 THEN ""
    ELSE IF k = 1 THEN items[1]
    ELSE JoinUpTo(sep, items, k - 1) \o sep \o items[k]

Join(sep, items) == JoinUpTo(sep, items, Len(items))

\* SeleniumLibrary.utils.is_truthy
is_truthy(v) ==
    CASE v.t = "none" -> FALSE
      [] v.t = "str" -> v.s # ""
      [] v.t = "bool" -> v.b
      [] v.t = "int" -> v.n # 0
      [] v.t = "float" -> ~(v.sec = 0 /\ v.frac = 0)

(* ------------------- robot.libraries.DateTime.convert_date ------------- *)

IsDigit(c) == c \in {"0", "1", "2", "3", "4", "5", "6", "7", "8", "9"}

DigitVal(c) == CHOOSE d \in 0..9 : Digit(d) = c

RECURSIVE DigitsOf(_)
DigitsOf(s) ==
    IF Len(s) = 0 THEN ""
    ELSE (IF IsDigit(SubSeq(s, 1, 1)) THEN SubSeq(s, 1, 1) ELSE "")
         \o DigitsOf(SubSeq(s, 2, Len(s)))

RECURSIVE RightPad(_, _)
RightPad(s, n) == IF Len(s) >= n THEN s ELSE RightPad(s \o "0", n)

RECURSIVE ParseNat(_)
ParseNat(s) ==
    IF Len(s) = 0 THEN 0
    ELSE 10 * ParseNat(SubSeq(s, 1, Len(s) - 1)) + DigitVal(SubSeq(s, Len(s), Len(s)))

IsLeap(y) == (y % 4 = 0 /\ y % 100 # 0) \/ y % 400 = 0

DaysInMonth(y, m) ==
    IF m = 2 THEN (IF IsLeap(y) THEN 29 ELSE 28)
    ELSE IF m \in {4, 6, 9, 11} THEN 30 ELSE 31

RECURSIVE DaysBeforeMonth(_, _)
DaysBeforeMonth(y, m) ==
    IF m = 1 THEN 0 ELSE DaysBeforeMonth(y, m - 1) + DaysInMonth(y, m - 1)

\* days from 1970-01-01 to the first day of year y (y >= 1)
DaysBeforeYear(y) ==
    LET p == y - 1
    IN  (p * 365 + p \div 4 - p \div 100 + p \div 400) - 719162

\* the epoch (a float) of a timestamp string read in a timezone utcoffset
\* seconds east of UTC; an ok = FALSE result is a ValueError
StringToEpoch(s, utcoffset) ==
    LET ds == DigitsOf(s)
    IN  IF Len(ds) < 8 \/ Len(ds) > 20 THEN [ok |-> FALSE]
        ELSE LET ts == RightPad(ds, 20)
                 y  == ParseNat(SubSeq(ts, 1, 4))
                 mo == ParseNat(SubSeq(ts, 5, 6))
                 d  == ParseNat(SubSeq(ts, 7, 8))
                 h  == ParseNat(SubSeq(ts, 9, 10))
                 mi == ParseNat(SubSeq(ts, 11, 12))
                 sc == ParseNat(SubSeq(ts, 13, 14))
                 ms == ParseNat(SubSeq(ts, 15, 17))
             IN  IF \/ y < 1 \/ mo < 1 \/ mo > 12 \/ d < 1
                    \/ h > 23 \/ mi > 59 \/ sc > 59
                 THEN [ok |-> FALSE]
                 ELSE IF d > DaysInMonth(y, mo) THEN [ok |-> FALSE]
                 ELSE [ok |-> TRUE,
                       sec |-> (((DaysBeforeYear(y) + DaysBeforeMonth(y, mo) + (d - 1)) * 24
                                  + h) * 60 + mi) * 60 + sc - utcoffset,
                       frac |-> ms]

\* convert_date(date, result_format='epoch')
convert_date(date, utcoffset) ==
    CASE date.t = "str" -> StringToEpoch(date.s, utcoffset)
      [] date.t = "int" -> [ok |-> TRUE, sec |-> date.n, frac |-> 0]
      [] date.t = "float" -> [ok |-> TRUE, sec |-> date.sec, frac |-> date.frac]
      [] OTHER -> [ok |-> FALSE]

\* PyInt as round(x) would give it: halves go up
PyInt_rounded(x) == IF x.frac >= 500 THEN x.sec + 1 ELSE x.sec

\* int(x) of a float: the fractional part is dropped, towards zero
PyInt(x) == IF x.sec >= 0 \/ x.frac = 0 THEN x.sec ELSE x.sec + 1

(* ------------------------------ dicts ---------------------------------- *)

\* d[key] = value
Put(d, key, value) ==
    [k \in (DOMAIN d) \cup {key} |-> IF k = key THEN value ELSE d[k]]

\* d.get(key, default)
Get(d, key, default) == IF key \in DOMAIN d THEN d[key] ELSE default

(* ------------------------- the browser session ------------------------- *)

\* self.browser.get_cookies(): the cookies of the current page, in order
browser_get_cookies(jar) == jar

\* self.browser.get_cookie(name): the first cookie of that name, or None
browser_get_cookie(jar, name) ==
    IF \E i \in 1..Len(jar) : jar[i]["name"] = name
    THEN jar[CHOOSE i \in 1..Len(jar) :
                /\ jar[i]["name"] = name
                /\ \A j \in 1..(i - 1) : jar[j]["name"] # name]
    ELSE None

\* self.browser.delete_cookie(name): no error when nothing matches
browser_delete_cookie(jar, name) ==
    SelectSeq(jar, LAMBDA c : c["name"] # name)

\* self.browser.delete_all_cookies()
browser_delete_all_cookies(jar) == <<>>

\* two cookies are the same cookie when name, domain and path agree
SameCookie(c, d) ==
    /\ c["name"] = d["name"]
    /\ Get(c, "domain", None) = Get(d, "domain", None)
    /\ Get(c, "path", None) = Get(d, "path", None)

\* self.browser.add_cookie(cookie_dict): replaces the same cookie, else adds
browser_add_cookie(jar, cookie_dict) ==
    Append(SelectSeq(jar, LAMBDA c : ~SameCookie(c, cookie_dict)), cookie_dict)

(* -------------------------- CookieInformation -------------------------- *)

\* CookieInformation with name and value assigned first
CookieInformation_name_first(domain, expiry, httpOnly, name, path, secure, value) ==
    [t |-> "CookieInformation",
     dict |-> << <<"name", name>>, <<"value", value>>,
                 <<"domain", domain>>, <<"expiry", expiry>>,
                 <<"httpOnly", httpOnly>>, <<"path", path>>,
                 <<"secure", secure>> >>]

\* CookieInformation.__init__: the attributes, in assignment order
CookieInformation(domain, expiry, httpOnly, name, path, secure, value) ==
    [t |-> "CookieInformation",
     dict |-> << <<"domain", domain>>, <<"expiry", expiry>>,
                 <<"httpOnly", httpOnly>>, <<"name", name>>,
                 <<"path", path>>, <<"secure", secure>>,
                 <<"value", value>> >>]

\* attribute access obj.key
Attr(obj, key) ==
    obj.dict[CHOOSE i \in 1..Len(obj.dict) : obj.dict[i][1] = key][2]

\* CookieInformation.full_info (and __str__)
full_info(obj) ==
    Join(", ", [i \in 1..Len(obj.dict) |->
                   obj.dict[i][1] \o "=" \o PyStr(obj.dict[i][2])])

(* --------------------------- keyword inputs ---------------------------- *)

\* names looked up and deleted: "c" is on no page
Names == {"a", "b", "c"}

\* arguments of add_cookie in a run of keywords over one session
RunNames == {"a", "c"}

RunValues == {"1"}

RunPaths == {None}

RunDomains == {None, Str("")}

RunSecures == {None, Bool(FALSE), Bool(TRUE)}

RunExpiries == {None, Integer(0), Str("soon"), Float(1, 500)}

RunUtcOffsets == {0}

\* arguments of a single add_cookie call
AddNames == {"a", "b", ""}

AddValues == {"1", ""}

AddPaths == {None, Str(""), Str("/")}

AddDomains == {None, Str(""), Str("x.org")}

AddSecures == {None, Bool(FALSE), Bool(TRUE), Integer(0), Str("yes")}

AddExpiries == {None, Str(""), Integer(0), Float(0, 0), Float(1, 500),
                Float(2, 499), Integer(3), Str("soon"),
                Str("1970-01-01 00:00:02.750"), Str("2024-01-01 00:00:00")}

\* the local timezone of the machine, in seconds east of UTC
AddUtcOffsets == {0, 3600}

\* cookies the page itself has set, as the browser reports them
PageCookies ==
    { [name |-> Str("a"), value |-> Str("1")],
      [name |-> Str("a"), value |-> Str("2"), path |-> Str("/p"),
       domain |-> Str("x.org"), secure |-> Bool(TRUE), httpOnly |-> Bool(FALSE),
       expiry |-> Integer(70)],
      [name |-> Str("b"), value |-> Str(""), path |-> Str("/"),
       httpOnly |-> Bool(TRUE)],
      [name |-> Str("b"), value |-> Str("x; y"), domain |-> Str("x.org"),
       secure |-> Bool(FALSE)] }

RECURSIVE SeqsUpTo(_, _)
SeqsUpTo(S, n) ==
    IF n = 0 THEN {<<>>}
    ELSE LET shorter == SeqsUpTo(S, n - 1)
         IN  shorter \cup {Append(q, x) : q \in shorter, x \in S}

\* a jar holds at most one cookie per (name, domain, path)
WellFormedJar(jar) ==
    \A i, j \in 1..Len(jar) : SameCookie(jar[i], jar[j]) => i = j

(* ------------------------------ outcomes ------------------------------- *)

Return(val) == [kind |-> "return", val |-> val]

Raise(exc, msg) == [kind |-> "raise", exc |-> exc, msg |-> msg]

Request(method, arg) == [method |-> method, arg |-> arg]

(* ------------------------------ keywords ------------------------------- *)

Init ==
    /\ cookies \in {jar \in SeqsUpTo(PageCookies, MaxCookies) : WellFormedJar(jar)}
    /\ call = [kw |-> "none"]
    /\ requests = <<>>
    /\ outcome = Return(None)

delete_all_cookies ==
    /\ call' = [kw |-> "delete_all_cookies"]
    /\ requests' = <<Request("delete_all_cookies", None)>>
    /\ cookies' = browser_delete_all_cookies(cookies)
    /\ outcome' = Return(None)

\* delete_cookie failing on an absent name, as the lookups do
delete_cookie_strict(name) ==
    /\ call' = [kw |-> "delete_cookie", name |-> name]
    /\ requests' = <<Request("delete_cookie", name)>>
    /\ cookies' = browser_delete_cookie(cookies, name)
    /\ outcome' = IF \E i \in 1..Len(cookies) : cookies[i]["name"] = name
                  THEN Return(None)
                  ELSE Raise("ValueError",
                             "Cookie with name " \o PyStr(name) \o " not found.")

delete_cookie(name) ==
    /\ call' = [kw |-> "delete_cookie", name |-> name]
    /\ requests' = <<Request("delete_cookie", name)>>
    /\ cookies' = browser_delete_cookie(cookies, name)
    /\ outcome' = Return(None)

\* get_cookies keeping only the first cookie of each name
get_cookies_dedup ==
    LET reply == browser_get_cookies(cookies)
        firsts == SelectSeq(reply,
                      LAMBDA c : c = browser_get_cookie(reply, c["name"]))
        pairs == [i \in 1..Len(firsts) |->
                     firsts[i]["name"].s \o "=" \o firsts[i]["value"].s]
    IN  /\ call' = [kw |-> "get_cookies"]
        /\ requests' = <<Request("get_cookies", None)>>
        /\ cookies' = cookies
        /\ outcome' = Return(Str(Join("; ", pairs)))

get_cookies ==
    LET reply == browser_get_cookies(cookies)
        pairs == [i \in 1..Len(reply) |->
                     reply[i]["name"].s \o "=" \o reply[i]["value"].s]
    IN  /\ call' = [kw |-> "get_cookies"]
        /\ requests' = <<Request("get_cookies", None)>>
        /\ cookies' = cookies
        /\ outcome' = Return(Str(Join("; ", pairs)))

\* get_cookie_value returning '' for an absent cookie
get_cookie_value_empty(name) ==
    LET cookie == browser_get_cookie(cookies, name)
    IN  /\ call' = [kw |-> "get_cookie_value", name |-> name]
        /\ requests' = <<Request("get_cookie", name)>>
        /\ cookies' = cookies
        /\ outcome' = IF cookie # None
                      THEN Return(cookie["value"])
                      ELSE Return(Str(""))

get_cookie_value(name) ==
    LET cookie == browser_get_cookie(cookies, name)
    IN  /\ call' = [kw |-> "get_cookie_value", name |-> name]
        /\ requests' = <<Request("get_cookie", name)>>
        /\ cookies' = cookies
        /\ outcome' = IF cookie # None
                      THEN Return(cookie["value"])
                      ELSE Raise("ValueError",
                                 "Cookie with name " \o PyStr(name) \o " not found.")

\* a cookie counted as found only when its value is not empty
CookieIsTrue_value(cookie) == cookie # None /\ cookie["value"] # Str("")

\* bool(cookie) of the session's reply: None and the empty dict are falsy
CookieIsTrue(cookie) == cookie # None /\ DOMAIN cookie # {}

\* get_cookie passing path and secure in each other's place
get_cookie_swapped(name) ==
    LET cookie == browser_get_cookie(cookies, name)
    IN  /\ call' = [kw |-> "get_cookie", name |-> name]
        /\ requests' = <<Request("get_cookie", name)>>
        /\ cookies' = cookies
        /\ outcome' = IF cookie # None /\ DOMAIN cookie # {}
                      THEN Return(CookieInformation(
                               Get(cookie, "domain", None), Get(cookie, "expiry", None),
                               Get(cookie, "httpOnly", None), cookie["name"],
                               Get(cookie, "secure", None), Get(cookie, "path", None),
                               cookie["value"]))
                      ELSE Raise("ValueError",
                                 "Cookie with name " \o PyStr(name) \o " not found.")

\* get_cookie answering a repeated lookup from the previous call
get_cookie_cached(name) ==
    LET cookie == browser_get_cookie(cookies, name)
        repeated == call = [kw |-> "get_cookie", name |-> name]
    IN  /\ call' = [kw |-> "get_cookie", name |-> name]
        /\ requests' = IF repeated THEN <<>> ELSE <<Request("get_cookie", name)>>
        /\ cookies' = cookies
        /\ outcome' = IF repeated THEN outcome
                      ELSE IF cookie # None /\ DOMAIN cookie # {}
                      THEN Return(CookieInformation(
                               Get(cookie, "domain", None), Get(cookie, "expiry", None),
                               Get(cookie, "httpOnly", None), cookie["name"],
                               Get(cookie, "path", None), Get(cookie, "secure", None),
                               cookie["value"]))
                      ELSE Raise("ValueError",
                                 "Cookie with name " \o PyStr(name) \o " not found.")

get_cookie(name) ==
    LET cookie == browser_get_cookie(cookies, name)
    IN  /\ call' = [kw |-> "get_cookie", name |-> name]
        /\ requests' = <<Request("get_cookie", name)>>
        /\ cookies' = cookies
        /\ outcome' = IF CookieIsTrue(cookie)
                      THEN Return(CookieInformation(
                               Get(cookie, "domain", None), Get(cookie, "expiry", None),
                               Get(cookie, "httpOnly", None), cookie["name"],
                               Get(cookie, "path", None), Get(cookie, "secure", None),
                               cookie["value"]))
                      ELSE Raise("ValueError",
                                 "Cookie with name " \o PyStr(name) \o " not found.")

\* the dict built with secure kept whenever it was passed
NewCookieBeforeExpiry_provided(name, value, path, domain, secure) ==
    LET c0 == [name |-> name, value |-> value]
        c1 == IF is_truthy(path) THEN Put(c0, "path", path) ELSE c0
        c2 == IF is_truthy(domain) THEN Put(c1, "domain", domain) ELSE c1
    IN  IF secure # None THEN Put(c2, "secure", secure) ELSE c2

\* the dict add_cookie has built when it reaches the expiry conversion
NewCookieBeforeExpiry(name, value, path, domain, secure) ==
    LET c0 == [name |-> name, value |-> value]
        c1 == IF is_truthy(path) THEN Put(c0, "path", path) ELSE c0
        c2 == IF is_truthy(domain) THEN Put(c1, "domain", domain) ELSE c1
    IN  IF is_truthy(secure) THEN Put(c2, "secure", secure) ELSE c2

\* add_cookie submitting the cookie before it converts the expiry
add_cookie_submit_first(name, value, path, domain, secure, expiry, utcoffset) ==
    LET c3 == NewCookieBeforeExpiry(name, value, path, domain, secure)
        converted == convert_date(expiry, utcoffset)
        failed == is_truthy(expiry) /\ ~converted.ok
        new_cookie == IF is_truthy(expiry) /\ converted.ok
                      THEN Put(c3, "expiry", Integer(PyInt(converted)))
                      ELSE c3
    IN  /\ Len(browser_add_cookie(cookies, new_cookie)) <= MaxCookies
        /\ call' = [kw |-> "add_cookie", name |-> name, value |-> value,
                    path |-> path, domain |-> domain, secure |-> secure,
                    expiry |-> expiry, utcoffset |-> utcoffset]
        /\ requests' = <<Request("add_cookie", new_cookie)>>
        /\ cookies' = browser_add_cookie(cookies, new_cookie)
        /\ outcome' = IF failed
                      THEN Raise("ValueError",
                                 "Invalid timestamp '" \o PyStr(expiry) \o "'.")
                      ELSE Return(None)

add_cookie(name, value, path, domain, secure, expiry, utcoffset) ==
    LET c3 == NewCookieBeforeExpiry(name, value, path, domain, secure)
        converted == convert_date(expiry, utcoffset)
        failed == is_truthy(expiry) /\ ~converted.ok
        new_cookie == IF is_truthy(expiry) /\ converted.ok
                      THEN Put(c3, "expiry", Integer(PyInt(converted)))
                      ELSE c3
    IN  /\ failed \/ Len(browser_add_cookie(cookies, new_cookie)) <= MaxCookies
        /\ call' = [kw |-> "add_cookie", name |-> name, value |-> value,
                    path |-> path, domain |-> domain, secure |-> secure,
                    expiry |-> expiry, utcoffset |-> utcoffset]
        /\ IF failed
           THEN /\ requests' = <<>>
                /\ cookies' = cookies
                /\ outcome' = Raise("ValueError",
                                    "Invalid timestamp '" \o PyStr(expiry) \o "'.")
           ELSE /\ requests' = <<Request("add_cookie", new_cookie)>>
                /\ cookies' = browser_add_cookie(cookies, new_cookie)
                /\ outcome' = Return(None)

Next ==
    \/ delete_all_cookies
    \/ \E name \in Names : delete_cookie(Str(name))
    \/ get_cookies
    \/ \E name \in Names : get_cookie_value(Str(name))
    \/ \E name \in Names : get_cookie(Str(name))
    \/ \E name \in RunNames, value \in RunValues, path \in RunPaths,
          domain \in RunDomains, secure \in RunSecures, expiry \in RunExpiries,
          utcoffset \in RunUtcOffsets :
          add_cookie(Str(name), Str(value), path, domain, secure, expiry, utcoffset)

Spec == Init /\ [][Next]_vars

\* the first keyword of a run is add_cookie, with any arguments
first_add_cookie ==
    /\ call.kw = "none"
    /\ \E name \in AddNames, value \in AddValues, path \in AddPaths,
          domain \in AddDomains, secure \in AddSecures, expiry \in AddExpiries,
          utcoffset \in AddUtcOffsets :
          add_cookie(Str(name), Str(value), path, domain, secure, expiry, utcoffset)

NextAdd == first_add_cookie

SpecAdd == Init /\ [][NextAdd]_vars

(* ------------------------------- claims -------------------------------- *)

\* C1: get_cookie_value(N) returns the value field of the session's cookie
\* named N when the session holds one, and otherwise fails with the
\* not-found error whose message contains the literal name N; it never
\* returns a value (or an empty string) for an absent N.
C1_GetCookieValue ==
    call.kw = "get_cookie_value" =>
        LET N == call.name
            held == {i \in 1..Len(cookies) : cookies[i]["name"] = N}
        IN  IF held # {}
            THEN /\ outcome.kind = "return"
                 /\ outcome.val =
                        cookies[CHOOSE i \in held : \A j \in held : i <= j]["value"]
            ELSE /\ outcome.kind = "raise"
                 /\ outcome.exc = "ValueError"
                 /\ \E k \in 0..(Len(outcome.msg) - Len(N.s)) :
                        SubSeq(outcome.msg, k + 1, k + Len(N.s)) = N.s
                 /\ outcome.msg = "Cookie with name " \o N.s \o " not found."

\* a lookup of a name no cookie of a non-empty session has
C1_Witness ==
    /\ call.kw = "get_cookie_value"
    /\ call.name = Str("c")
    /\ Len(cookies) > 0
    /\ \A i \in 1..Len(cookies) : cookies[i]["name"] # Str("c")
    /\ outcome.kind = "raise"

\* C2: get_cookies() is the session's cookies rendered name=value, in the
\* session's order, joined with "; " with no leading or trailing separator,
\* the empty string for no cookies; nothing is re-sorted or de-duplicated.
C2_GetCookies ==
    call.kw = "get_cookies" =>
        LET n == Len(cookies)
            entry(i) == cookies[i]["name"].s \o "=" \o cookies[i]["value"].s
            start[i \in 1..n] ==
                IF i = 1 THEN 0 ELSE start[i - 1] + Len(entry(i - 1)) + 2
        IN  /\ outcome.kind = "return"
            /\ outcome.val.t = "str"
            /\ n = 0 => outcome.val.s = ""
            /\ n > 0 => Len(outcome.val.s) = start[n] + Len(entry(n))
            /\ \A i \in 1..n :
                   SubSeq(outcome.val.s, start[i] + 1, start[i] + Len(entry(i)))
                       = entry(i)
            /\ \A i \in 1..(n - 1) :
                   SubSeq(outcome.val.s, start[i] + Len(entry(i)) + 1,
                          start[i] + Len(entry(i)) + 2) = "; "

\* get_cookies over a session holding two cookies of the same name
C2_Witness ==
    /\ call.kw = "get_cookies"
    /\ Len(cookies) >= 2
    /\ cookies[1]["name"] = cookies[2]["name"]
    /\ outcome.kind = "return"

\* C3: the payload add_cookie submits always has name and value (empty
\* strings included) and has each of path, domain, secure, expiry exactly
\* when that argument is truthy (not None, '', False or zero);
\* add_cookie("a","1") and add_cookie("a","1", secure=False, domain="")
\* both submit exactly {name: "a", value: "1"}.
C3_AddCookiePayload ==
    (call.kw = "add_cookie" /\ requests # <<>>) =>
        LET payload == requests[1].arg
            falsy == {None, Str(""), Bool(FALSE), Integer(0), Float(0, 0)}
        IN  /\ requests[1].method = "add_cookie"
            /\ {"name", "value"} \subseteq DOMAIN payload
            /\ DOMAIN payload \subseteq
                   {"name", "value", "path", "domain", "secure", "expiry"}
            /\ payload["name"] = call.name
            /\ payload["value"] = call.value
            /\ \A k \in {"path", "domain", "secure", "expiry"} :
                   (k \in DOMAIN payload) <=> (call[k] \notin falsy)
            /\ \A k \in {"path", "domain", "secure"} :
                   k \in DOMAIN payload => payload[k] = call[k]
            /\ ( /\ call.name = Str("a") /\ call.value = Str("1")
                 /\ call.path = None /\ call.expiry = None
                 /\ call.domain \in {None, Str("")}
                 /\ call.secure \in {None, Bool(FALSE)} )
               => payload = [name |-> Str("a"), value |-> Str("1")]

\* add_cookie("a", "1", secure=False, domain="") has submitted its payload
C3_Witness ==
    /\ call.kw = "add_cookie"
    /\ call.name = Str("a") /\ call.value = Str("1")
    /\ call.path = None /\ call.expiry = None
    /\ call.domain = Str("") /\ call.secure = Bool(FALSE)
    /\ Len(requests) = 1
    /\ DOMAIN requests[1].arg = {"name", "value"}

\* C4: get_cookie(N) fails with the not-found error when the session has no
\* cookie named N; otherwise full_info of the returned object is the seven
\* fields domain, expiry, httpOnly, name, path, secure, value, each once as
\* key=value joined by ", ", in that order, whatever optional fields the
\* session supplied.
C4_FullInfo ==
    call.kw = "get_cookie" =>
        LET N == call.name
            held == {i \in 1..Len(cookies) : cookies[i]["name"] = N}
        IN  IF held = {}
            THEN outcome.kind = "raise" /\ outcome.exc = "ValueError"
            ELSE LET c == cookies[CHOOSE i \in held : \A j \in held : i <= j]
                     shown(k) == IF k \in DOMAIN c THEN PyStr(c[k]) ELSE "None"
                 IN  /\ outcome.kind = "return"
                     /\ outcome.val.t = "CookieInformation"
                     /\ full_info(outcome.val) =
                            "domain=" \o shown("domain")
                            \o ", expiry=" \o shown("expiry")
                            \o ", httpOnly=" \o shown("httpOnly")
                            \o ", name=" \o shown("name")
                            \o ", path=" \o shown("path")
                            \o ", secure=" \o shown("secure")
                            \o ", value=" \o shown("value")

\* get_cookie has returned a cookie the session gave a path and httpOnly
\* but no domain, expiry or secure
C4_Witness ==
    /\ call.kw = "get_cookie"
    /\ outcome.kind = "return"
    /\ full_info(outcome.val) =
           "domain=None, expiry=None, httpOnly=True, name=b, path=/, secure=None, value="

\* C5: every field of the CookieInformation get_cookie returns equals the
\* session cookie's field of the same key when the cookie has that key, and
\* is None when an optional key is missing; no two fields are swapped.
C5_FieldsMapped ==
    (call.kw = "get_cookie" /\ outcome.kind = "return") =>
        LET held == {i \in 1..Len(cookies) : cookies[i]["name"] = call.name}
            c == cookies[CHOOSE i \in held : \A j \in held : i <= j]
        IN  /\ held # {}
            /\ \A k \in {"name", "value"} : Attr(outcome.val, k) = c[k]
            /\ \A k \in {"domain", "expiry", "httpOnly", "path", "secure"} :
                   Attr(outcome.val, k) = (IF k \in DOMAIN c THEN c[k] ELSE None)

\* get_cookie has returned a cookie whose optional fields were all supplied
C5_Witness ==
    /\ call.kw = "get_cookie"
    /\ outcome.kind = "return"
    /\ Attr(outcome.val, "path") = Str("/p")
    /\ Attr(outcome.val, "secure") = Bool(TRUE)
    /\ Attr(outcome.val, "httpOnly") = Bool(FALSE)
    /\ Attr(outcome.val, "expiry") = Integer(70)
    /\ Attr(outcome.val, "domain") = Str("x.org")

\* C6: delete_cookie(N) never raises; with N absent the session's cookies
\* are unchanged, with N present only the cookies named N go, and a second
\* delete_cookie(N) directly after changes nothing.
C6_DeleteCookie ==
    [][ call'.kw = "delete_cookie" =>
          LET N == call'.name
          IN  /\ outcome' = Return(None)
              /\ (\A i \in 1..Len(cookies) : cookies[i]["name"] # N)
                     => cookies' = cookies
              /\ \A i \in 1..Len(cookies') : cookies'[i]["name"] # N
              /\ cookies' = SelectSeq(cookies, LAMBDA c : c["name"] # N)
              /\ (call.kw = "delete_cookie" /\ call.name = N)
                     => cookies' = cookies ]_vars

\* delete_cookie of a name the session did not hold, the others remaining
C6_Witness ==
    /\ call.kw = "delete_cookie"
    /\ call.name = Str("c")
    /\ Len(cookies) >= 2
    /\ {cookies[i]["name"] : i \in 1..Len(cookies)} = {Str("a"), Str("b")}
    /\ outcome = Return(None)

\* C7 as claimed: every keyword issues exactly one request to the session
\* per invocation, fixed by that call's arguments alone.
C7_OneRequestAlways ==
    call.kw # "none" =>
        /\ Len(requests) = 1
        /\ requests[1].method =
               (IF call.kw \in {"get_cookie", "get_cookie_value"}
                THEN "get_cookie" ELSE call.kw)

\* C7 as amended: every keyword issues exactly one request to the session
\* per invocation, fixed by that call's arguments alone, except that
\* add_cookie issues none when the conversion of a truthy expiry fails; a
\* lookup fails exactly when the session holds no cookie of that name,
\* whatever was called before.
C7_OneRequestUnlessConversionFails ==
    call.kw # "none" =>
        IF /\ call.kw = "add_cookie"
           /\ call.expiry \notin {None, Str(""), Bool(FALSE), Integer(0), Float(0, 0)}
           /\ ~convert_date(call.expiry, call.utcoffset).ok
        THEN requests = <<>>
        ELSE /\ Len(requests) = 1
             /\ requests[1].method =
                    (IF call.kw \in {"get_cookie", "get_cookie_value"}
                     THEN "get_cookie" ELSE call.kw)
             /\ call.kw \in {"get_cookie", "get_cookie_value", "delete_cookie"}
                    => requests[1].arg = call.name
             /\ call.kw = "add_cookie"
                    => /\ requests[1].arg["name"] = call.name
                       /\ requests[1].arg["value"] = call.value
             /\ call.kw \in {"get_cookie", "get_cookie_value"}
                    => (outcome.kind = "raise" <=>
                          \A i \in 1..Len(cookies) : cookies[i]["name"] # call.name)

\* a lookup has made its one request and failed on a non-empty session
C7_Witness ==
    /\ call.kw = "get_cookie"
    /\ Len(requests) = 1
    /\ outcome.kind = "raise"
    /\ Len(cookies) >= 1

\* C8: with a truthy expiry the payload's expiry is the whole number of
\* seconds got from the conversion result by dropping its fractional part,
\* not by rounding: a non-negative result with fractional part >= 0.5 gives
\* the lower whole number; "2024-01-01 00:00:00" (UTC) gives 1704067200.
C8_ExpiryTruncated ==
    ( /\ call.kw = "add_cookie"
      /\ requests # <<>>
      /\ call.expiry \notin {None, Str(""), Bool(FALSE), Integer(0), Float(0, 0)} ) =>
        LET x == convert_date(call.expiry, call.utcoffset)
            e == requests[1].arg["expiry"]
        IN  /\ e.t = "int"
            /\ e.n \in {x.sec, x.sec + 1}
            /\ x.frac = 0 => e.n = x.sec
            /\ x.sec >= 0 => e.n = x.sec
            /\ (x.sec < 0 /\ x.frac > 0) => e.n = x.sec + 1
            /\ (call.expiry = Str("2024-01-01 00:00:00") /\ call.utcoffset = 0)
                   => e.n = 1704067200

\* add_cookie with expiry 1.5 has submitted expiry 1
C8_Witness ==
    /\ call.kw = "add_cookie"
    /\ call.expiry = Float(1, 500)
    /\ Len(requests) = 1
    /\ requests[1].arg["expiry"] = Integer(1)

\* C9: get_cookie and get_cookie_value agree on what is found: called one
\* after the other with the same name on the same session, either both fail
\* with the same not-found error or both succeed, and then the value field
\* of get_cookie's object is what get_cookie_value returns.
C9_LookupsAgree ==
    [][ ( /\ call.kw \in {"get_cookie", "get_cookie_value"}
          /\ call'.kw \in {"get_cookie", "get_cookie_value"}
          /\ call.kw # call'.kw
          /\ call.name = call'.name ) =>
        /\ outcome.kind = outcome'.kind
        /\ outcome.kind = "raise" => outcome' = outcome
        /\ outcome.kind = "return" =>
               IF call.kw = "get_cookie"
               THEN Attr(outcome.val, "value") = outcome'.val
               ELSE Attr(outcome'.val, "value") = outcome.val ]_vars

\* get_cookie has found a cookie whose value is the empty string
C9_Witness ==
    /\ call.kw = "get_cookie"
    /\ call.name = Str("b")
    /\ outcome.kind = "return"
    /\ Attr(outcome.val, "value") = Str("")

\* C10: add_cookie calls the session only once the payload is complete: if
\* the conversion of a truthy expiry fails, add_cookie fails, the session's
\* add-cookie operation is never called and the session's cookies are
\* unchanged; otherwise the operation is called exactly once.
C10_NoPartialAdd ==
    [][ call'.kw = "add_cookie" =>
          IF /\ call'.expiry \notin {None, Str(""), Bool(FALSE), Integer(0), Float(0, 0)}
             /\ ~convert_date(call'.expiry, call'.utcoffset).ok
          THEN /\ requests' = <<>>
               /\ cookies' = cookies
               /\ outcome'.kind = "raise"
          ELSE /\ Len(requests') = 1
               /\ requests'[1].method = "add_cookie"
               /\ outcome' = Return(None)
               /\ Len(cookies') >= 1
               /\ cookies'[Len(cookies')] = requests'[1].arg ]_vars

\* add_cookie with an expiry that is no date has failed
C10_Witness ==
    /\ call.kw = "add_cookie"
    /\ call.expiry = Str("soon")
    /\ call.secure = Bool(TRUE)
    /\ requests = <<>>
    /\ outcome.kind = "raise"

====
